---- MODULE Spec2Model ----
(***************************************************************************)
(* Model of the Eversolo DMP-A6 driver of the PiControl hub:               *)
(*   - the zeroconf discovery listener (ZeroconfBrowser),                  *)
(*   - the device registry with its dbm cache                             *)
(*     (DmpA6DeviceDriverDescriptor),                                      *)
(*   - the driver facade and its command catalog (DmpA6DeviceDriver,       *)
(*     create_commands) and the HTTP control client (eversolo.py).         *)
(*                                                                         *)
(* Two threads touch the registry state: the zeroconf thread, which runs   *)
(* the listener callbacks, and the host's event loop, which runs the       *)
(* registry calls.  A registry call is therefore modelled by its reads     *)
(* and writes of the shared list, one step each, and a listener callback   *)
(* by the one step in which it appends.                                    *)
(***************************************************************************)
EXTENDS Integers, Sequences, FiniteSets, TLC

VARIABLES
    devices,    \* ZeroconfBrowser._devices: the discovered DeviceInfo list (the
                \* browser is a process-wide singleton, so there is one list)
    known,      \* the service names the ServiceBrowser has announced and not removed
    via,        \* history: for devices[i], the service name and address that confirmed it
    backend,    \* the module dbm.open uses in this build of Python
    cache,      \* the dbm file eversolo.cache: key -> stored JSON text
    written,    \* history: the device list last handed to _cache_devices
    call,       \* the registry call in progress or last finished
    pc,         \* position of that call inside get_devices
    ret,        \* what the last finished registry call returned or raised
    cb,         \* what the last listener callback did
    driver,     \* the DmpA6DeviceDriver under test: device_id and _commands
    dret,       \* what the last driver call returned or raised
    http,       \* the HTTP requests issued by the last driver call
    ir          \* the infrared codes sent by the last driver call

vars == <<devices, known, via, backend, cache, written, call, pc, ret, cb, driver, dret, http, ir>>

registryVars == <<devices, known, via, backend, cache, written, call, pc, ret, cb>>
driverVars == <<driver, dret, http, ir>>

(***************************************************************************)
(* Bounds of the model.                                                    *)
(***************************************************************************)
\* the listener stops confirming once the discovered list holds this many entries
MaxDevices == 2

(***************************************************************************)
(* The network the driver runs in.                                         *)
(***************************************************************************)
ServiceNames == {"svc1", "svc2"}

Addresses == {"10.0.0.1", "10.0.0.2"}

\* The identity a device answers the handshake with.  The device reached at
\* 10.0.0.2 reports another host than the address it was reached at.
DeviceAt(addr) ==
    IF addr = "10.0.0.1"
    THEN [name |-> "Living", host |-> "10.0.0.1"]
    ELSE [name |-> "Studio", host |-> "10.0.0.9"]

\* ids a caller may ask the registry for: both reported hosts, and one that
\* no device reports
DeviceIds == {"10.0.0.1", "10.0.0.9", "10.0.0.2"}

\* zc.get_service_info: None, or an info with its parsed address list
ServiceInfos ==
    {[present |-> FALSE, addresses |-> <<>>]}
    \cup {[present |-> TRUE, addresses |-> as] :
            as \in {<<>>, <<"10.0.0.1">>, <<"10.0.0.2", "10.0.0.1">>}}

\* What a GET of the connect endpoint of addr can end in.
HandshakeReplies(addr) ==
    { [kind |-> "refused"],
      [kind |-> "timeout"],
      [kind |-> "text"],
      [kind |-> "json", body |-> [status |-> 500]],
      [kind |-> "json", body |-> [device |-> [name |-> DeviceAt(addr).name]]],
      [kind |-> "json", body |-> [device |-> [host |-> DeviceAt(addr).host]]],
      [kind |-> "json", body |-> [device |-> DeviceAt(addr)]] }

\* no request is sent
NoReply == [kind |-> "none"]

\* what the handshake of add_service can end in, given the service info: it
\* goes to the first address, and is not made without one
RepliesFor(info) ==
    IF info.present /\ info.addresses # <<>>
    THEN HandshakeReplies(info.addresses[1])
    ELSE {NoReply}

(***************************************************************************)
(* Values returned and raised.                                             *)
(***************************************************************************)
Raise(exc) == [kind |-> "raise", exc |-> exc]

Return(val) == [kind |-> "return", val |-> val]

\* DeviceInfo(name=..., device_id=...)
DeviceInfo(name, device_id) == [name |-> name, device_id |-> device_id]

(***************************************************************************)
(* eversolo.py: the handshake.                                             *)
(***************************************************************************)
\* connect_device: requests.get(url, timeout=10), then json.loads(response.text)
connect_device(reply) ==
    CASE reply.kind = "refused" -> Raise("ConnectionError")
      [] reply.kind = "timeout" -> Raise("Timeout")
      [] reply.kind = "text" -> Raise("JSONDecodeError")
      [] OTHER -> Return(reply.body)

(***************************************************************************)
(* ZeroconfBrowser.                                                        *)
(***************************************************************************)
NoCallback == [event |-> "none", raised |-> "none", connects |-> 0, appended |-> FALSE]

\* The body of the try block of add_service: addresses[0], the handshake, the
\* two subscripts of its answer and the DeviceInfo built from them.
add_service_try(addresses, reply) ==
    IF Len(addresses) = 0
    THEN [out |-> Raise("IndexError"), connects |-> 0]
    ELSE LET r == connect_device(reply) IN
         IF r.kind = "raise" THEN [out |-> r, connects |-> 1]
         ELSE IF "device" \notin DOMAIN r.val
              THEN [out |-> Raise("KeyError"), connects |-> 1]
         ELSE IF "name" \notin DOMAIN r.val.device
              THEN [out |-> Raise("KeyError"), connects |-> 1]
         ELSE IF "host" \notin DOMAIN r.val.device
              THEN [out |-> Raise("KeyError"), connects |-> 1]
         ELSE [out |-> Return(DeviceInfo(r.val.device.name, r.val.device.host)),
               connects |-> 1]

\* add_service with addresses[0] evaluated in front of the try block: the
\* IndexError of an empty address list leaves the callback
add_service_escapes_index(out) ==
    IF out.exc = "IndexError" THEN "IndexError" ELSE "none"

\* except Exception: pass -- which outcomes of the try block leave add_service
\* as an exception
add_service_escapes(out) == "none"

\* add_service(zc, type_, name): info is what zc.get_service_info answers,
\* reply what the handshake with info's first address ends in.
add_service(name, info, reply) ==
    /\ Len(devices) < MaxDevices
    /\ LET t == IF info.present
                THEN add_service_try(info.addresses, reply)
                ELSE [out |-> Raise("NoInfo"), connects |-> 0]
           ok == t.out.kind = "return"
       IN  /\ devices' = IF ok THEN Append(devices, t.out.val) ELSE devices
           /\ via' = IF ok
                     THEN Append(via, [service |-> name, address |-> info.addresses[1]])
                     ELSE via
           /\ cb' = [event |-> "add",
                     raised |-> IF info.present /\ ~ok
                                THEN add_service_escapes(t.out) ELSE "none",
                     connects |-> t.connects,
                     appended |-> ok]
    /\ UNCHANGED <<backend, cache, written, call, pc, ret>>

\* update_service: logs only
update_service(name) ==
    /\ cb' = [event |-> "update", raised |-> "none", connects |-> 0, appended |-> FALSE]
    /\ UNCHANGED <<devices, known, via, backend, cache, written, call, pc, ret>>

\* remove_service taking the devices confirmed through the removed service
\* off the list
remove_service_drops(name) ==
    /\ cb' = [event |-> "remove", raised |-> "none", connects |-> 0, appended |-> FALSE]
    /\ devices' = SelectSeq(devices, LAMBDA d :
                      \A k \in 1 .. Len(devices) :
                         devices[k] = d => via[k].service # name)
    /\ via' = SelectSeq(via, LAMBDA v : v.service # name)
    /\ UNCHANGED <<backend, cache, written, call, pc, ret>>

\* remove_service: logs only
remove_service(name) ==
    /\ cb' = [event |-> "remove", raised |-> "none", connects |-> 0, appended |-> FALSE]
    /\ UNCHANGED <<devices, via, backend, cache, written, call, pc, ret>>

(***************************************************************************)
(* DmpA6DeviceDriverDescriptor: the cache.                                 *)
(***************************************************************************)
CacheKey == "cached_devices"

\* a dbm file without entries
EmptyCache == [k \in {} |-> <<>>]

RECURSIVE DumpsItems(_)
\* the items of the JSON array, each {"name": ..., "device_id": ...}
DumpsItems(dicts) ==
    IF dicts = <<>> THEN <<>>
    ELSE <<"{", "name", ":", Head(dicts).name, ",",
           "device_id", ":", Head(dicts).device_id, "}">>
         \o (IF Len(dicts) > 1 THEN <<",">> ELSE <<>>)
         \o DumpsItems(Tail(dicts))

\* json.dumps of the list of dicts built from the device list, as its tokens
JsonDumps(devs) == <<"[">> \o DumpsItems(devs) \o <<"]">>

\* The modules dbm.open chooses from.  dbm.gnu opens a file for writing under
\* an exclusive lock, dbm.ndbm takes none.
Backends == {"dbm.gnu", "dbm.ndbm"}

\* dbm.open(self._cache_filepath, "c") inside _cached_devices and
\* _cache_devices: __init__ has opened the same file the same way and keeps
\* that handle in self._filecache, so under dbm.gnu the file is locked
dbm_open(b) ==
    IF b = "dbm.gnu" THEN Raise("dbm.error") ELSE Return("open")

\* _cache_devices(devices): how it ends, and the dbm file after
\* cache["cached_devices"] = jsn
cache_devices(b, c, devs) ==
    IF dbm_open(b).kind = "raise"
    THEN [out |-> dbm_open(b), cache |-> c]
    ELSE [out |-> Return("None"),
          cache |-> [k \in DOMAIN c \cup {CacheKey} |->
                        IF k = CacheKey THEN JsonDumps(devs) ELSE c[k]]]

\* _cached_devices(): with the key present, json.loads[jsn] subscripts the
\* function json.loads, which raises TypeError; without it the live list
\* object itself is returned.
cached_devices(b, c) ==
    IF dbm_open(b).kind = "raise" THEN dbm_open(b)
    ELSE IF CacheKey \in DOMAIN c THEN Raise("TypeError")
    ELSE Return("live")

(***************************************************************************)
(* DmpA6DeviceDriverDescriptor: get_devices, get_device,                   *)
(* create_device_instance.                                                 *)
(***************************************************************************)
NoCall == [op |-> "none", id |-> "none", branch |-> "none"]

NoReturn == [kind |-> "none"]

\* The list a caller sees through a returned list reference.  get_devices
\* returns self._zeroconf_browser.devices, i.e. the listener's own list object.
Deref(ref) == IF ref = "live" THEN devices ELSE ref

\* get_devices without its test for an empty live list
live_is_empty_never(devs) == FALSE

\* len(self._zeroconf_browser.devices) == 0
live_is_empty(devs) == Len(devs) = 0

\* list(filter(lambda d: d.device_id == device_id, devs))
filter_by_id(devs, device_id) ==
    SelectSeq(devs, LAMBDA d : d.device_id = device_id)

\* get_device after its get_devices() has ended in r
get_device(r, device_id) ==
    IF r.kind = "raise" THEN r
    ELSE LET found == filter_by_id(Deref(r.val), device_id) IN
         IF Len(found) = 0
         THEN Raise("DeviceNotFound")
         ELSE Return(found[1])

\* create_device_instance: DmpA6DeviceDriver(await self.get_device(device_id))
create_device_instance(r, device_id) ==
    LET d == get_device(r, device_id) IN
    IF d.kind = "raise" THEN d
    ELSE Return([driver_for |-> d.val])

\* what the call in progress hands to its caller once its get_devices() ended in r
Finish(r) ==
    CASE call.op = "get_devices" -> r
      [] call.op = "get_device" -> get_device(r, call.id)
      [] call.op = "create_device_instance" -> create_device_instance(r, call.id)

\* A registry call starts: get_devices reads the length of the live list.
Enter(op, id) ==
    /\ pc = "idle"
    /\ call' = [op |-> op, id |-> id,
                branch |-> IF live_is_empty(devices) THEN "cached" ELSE "live"]
    /\ pc' = IF live_is_empty(devices) THEN "cached" ELSE "live"
    /\ ret' = NoReturn
    /\ UNCHANGED <<devices, known, via, backend, cache, written, cb>>

\* return self._cached_devices()
ReturnCached ==
    /\ pc = "cached"
    /\ ret' = Finish(cached_devices(backend, cache))
    /\ pc' = "idle"
    /\ UNCHANGED <<devices, known, via, backend, cache, written, call, cb>>
    /\ UNCHANGED driverVars

\* self._cache_devices(self._zeroconf_browser.devices)
WriteCache ==
    /\ pc = "live"
    /\ LET w == cache_devices(backend, cache, devices) IN
       /\ cache' = w.cache
       /\ IF w.out.kind = "raise"
          THEN ret' = Finish(w.out) /\ pc' = "idle" /\ written' = written
          ELSE ret' = ret /\ pc' = "return" /\ written' = devices
    /\ UNCHANGED <<devices, known, via, backend, call, cb>>
    /\ UNCHANGED driverVars

\* return self._zeroconf_browser.devices
ReturnLive ==
    /\ pc = "return"
    /\ ret' = Finish(Return("live"))
    /\ pc' = "idle"
    /\ UNCHANGED <<devices, known, via, backend, cache, written, call, cb>>
    /\ UNCHANGED driverVars

\* The process ends and the driver is loaded again: ZeroconfBrowser.__init__
\* starts with an empty list, the dbm file stays on disk.
Restart ==
    /\ devices' = <<>>
    /\ known' = {}
    /\ via' = <<>>
    /\ call' = NoCall
    /\ pc' = "idle"
    /\ ret' = NoReturn
    /\ cb' = NoCallback
    /\ UNCHANGED <<backend, cache, written>>
    /\ UNCHANGED driverVars

(***************************************************************************)
(* commands.py: the command catalog.                                       *)
(***************************************************************************)
TOGGLE_POWER == 1
TOGGLE_DISPLAY == 2
TOGGLE_VU == 3
VOLUME_UP == 4
VOLUME_DOWN == 5
PLAY_PAUSE == 6
PLAY_NEXT == 7
PLAY_PREVIOUS == 8
INPUT_INTERNAL_PLAYER == 10
INPUT_BLUETOOTH == 11
INPUT_USB == 12
INPUT_OPTICAL == 13
INPUT_COAX == 14
OUTPUT_BALXLR == 15
OUTPUT_ANALOG_RCA == 16
OUTPUT_XLR_RCA == 17
OUTPUT_HDMI == 18
OUTPUT_SPDIF == 19
OUTPUT_USB_DAC == 20

\* the default port of every function of eversolo.py
DefaultPort == 9529

\* response["status"] != 200
StatusOk == 200

\* DmpA6HttpDeviceCommand(cmd_id, title, icon, device_id, callback)
DmpA6HttpDeviceCommand(cmd_id, title, device_id, callback) ==
    [id |-> cmd_id, title |-> title, class |-> "http",
     ip_address |-> device_id, callback |-> callback, lirc_client |-> FALSE]

\* DmpA6PowerToggleCommand(cmd_id, title, icon, device_id): lirc.Client() gives
\* the client, or raises LircdConnectionError and the client is None
DmpA6PowerToggleCommand(cmd_id, title, device_id, lirc_ok) ==
    [id |-> cmd_id, title |-> title, class |-> "power",
     ip_address |-> device_id, callback |-> "none", lirc_client |-> lirc_ok]

\* create_commands(device_id); lirc_ok: whether lircd accepts the connection
create_commands(device_id, lirc_ok) ==
    << DmpA6PowerToggleCommand(TOGGLE_POWER, "On/Off", device_id, lirc_ok),
       DmpA6HttpDeviceCommand(TOGGLE_DISPLAY, "Display on/off", device_id, "toggle_screen"),
       DmpA6HttpDeviceCommand(TOGGLE_VU, "Change VU", device_id, "change_vu_display"),
       DmpA6HttpDeviceCommand(VOLUME_UP, "Volume +", device_id, "increase_volume"),
       DmpA6HttpDeviceCommand(VOLUME_DOWN, "Volume -", device_id, "decrease_volume"),
       DmpA6HttpDeviceCommand(PLAY_PAUSE, "Play/Pause", device_id, "play_or_pause"),
       DmpA6HttpDeviceCommand(PLAY_NEXT, "Next Track", device_id, "next_track"),
       DmpA6HttpDeviceCommand(PLAY_PREVIOUS, "Previous Track", device_id, "previous_track"),
       DmpA6HttpDeviceCommand(INPUT_INTERNAL_PLAYER, "Input: Internal Player", device_id,
                              "set_input_internal_player"),
       DmpA6HttpDeviceCommand(INPUT_BLUETOOTH, "Input: Bluetooth", device_id,
                              "set_input_bluetooth"),
       DmpA6HttpDeviceCommand(INPUT_USB, "Input: USB", device_id, "set_input_usb"),
       DmpA6HttpDeviceCommand(INPUT_OPTICAL, "Input: Optical", device_id, "set_input_optical"),
       DmpA6HttpDeviceCommand(INPUT_COAX, "Input: Coax", device_id, "set_input_coax"),
       DmpA6HttpDeviceCommand(OUTPUT_BALXLR, "Output: Balanced XLR", device_id,
                              "set_output_balxlr"),
       DmpA6HttpDeviceCommand(OUTPUT_ANALOG_RCA, "Output: Analog RCA", device_id,
                              "set_output_analog_rca"),
       DmpA6HttpDeviceCommand(OUTPUT_XLR_RCA, "Output: XLR/RCA", device_id,
                              "set_output_xlr_rca"),
       DmpA6HttpDeviceCommand(OUTPUT_HDMI, "Output: HDMI", device_id, "set_output_hdmi"),
       DmpA6HttpDeviceCommand(OUTPUT_SPDIF, "Output: ", device_id, "set_output_spdif"),
       DmpA6HttpDeviceCommand(OUTPUT_USB_DAC, "Output: ", device_id, "set_output_usb") >>

(***************************************************************************)
(* eversolo.py: the control client.                                        *)
(***************************************************************************)
\* the uri each wrapper of _execute_command passes
Uri(callback) ==
    CASE callback = "play_or_pause" -> "/ZidooMusicControl/v2/playOrPause"
      [] callback = "increase_volume" ->
            "/ZidooControlCenter/RemoteControl/sendkey?key=Key.VolumeUp"
      [] callback = "decrease_volume" ->
            "/ZidooControlCenter/RemoteControl/sendkey?key=Key.VolumeDown"
      [] callback = "next_track" -> "/ZidooMusicControl/v2/playNext"
      [] callback = "previous_track" -> "/ZidooMusicControl/v2/playLast"
      [] callback = "change_vu_display" -> "/ZidooMusicControl/v2/changVUDisplay"
      [] callback = "toggle_screen" -> "/ZidooMusicControl/v2/setPowerOption?tag=screen"
      [] callback = "set_input_internal_player" ->
            "/ZidooMusicControl/v2/setInputList?tag=XMOS&index=4"
      [] callback = "set_input_bluetooth" ->
            "/ZidooMusicControl/v2/setInputList?tag=BT&index=4"
      [] callback = "set_input_usb" ->
            "/ZidooMusicControl/v2/setInputList?tag=USB&index=4"
      [] callback = "set_input_optical" ->
            "/ZidooMusicControl/v2/setInputList?tag=SPDIF&index=4"
      [] callback = "set_input_coax" ->
            "/ZidooMusicControl/v2/setInputList?tag=RCA&index=4"
      [] callback = "set_output_balxlr" ->
            "/ZidooMusicControl/v2/setOutInputList?tag=XLR&index=0"
      [] callback = "set_output_analog_rca" ->
            "/ZidooMusicControl/v2/setOutInputList?tag=RCA&index=0"
      [] callback = "set_output_xlr_rca" ->
            "/ZidooMusicControl/v2/setOutInputList?tag=XLRRCA&index=0"
      [] callback = "set_output_hdmi" ->
            "/ZidooMusicControl/v2/setOutInputList?tag=HDMI&index=0"
      [] callback = "set_output_spdif" ->
            "/ZidooMusicControl/v2/setOutInputList?tag=SPDIF&index=0"
      [] callback = "set_output_usb" ->
            "/ZidooMusicControl/v2/setOutInputList?tag=USB&index=0"

\* url = f"http://{ip_address}:{port}{uri}"
Get(ip_address, port, uri) ==
    [method |-> "GET", host |-> ip_address, port |-> port, uri |-> uri]

\* What a GET of a command endpoint can end in.
CommandReplies ==
    { [kind |-> "refused"],
      [kind |-> "timeout"],
      [kind |-> "text"],
      [kind |-> "json", body |-> [status |-> 200]],
      [kind |-> "json", body |-> [status |-> 500]],
      [kind |-> "json", body |-> [msg |-> 0]] }

\* _execute_command: session.get(url), response.text(), json.loads
execute_command(reply) ==
    CASE reply.kind = "refused" -> Raise("ClientConnectorError")
      [] reply.kind = "timeout" -> Raise("TimeoutError")
      [] reply.kind = "text" -> Raise("JSONDecodeError")
      [] OTHER -> Return(reply.body)

\* a wrapper reading the status with response.get("status"): a body without
\* one raises nothing
wrapper_get(reply) ==
    LET response == execute_command(reply) IN
    IF response.kind = "raise" THEN response
    ELSE Return("None")

\* play_or_pause and the wrappers like it: the response of _execute_command,
\* then response["status"] != 200 with a body of pass
wrapper(reply) ==
    LET response == execute_command(reply) IN
    IF response.kind = "raise" THEN response
    ELSE IF "status" \notin DOMAIN response.val THEN Raise("KeyError")
    ELSE IF response.val.status # StatusOk THEN Return("None")
    ELSE Return("None")

\* the handshake endpoint with the client name and uuid both callers pass
ConnectUri ==
    "/ZidooControlCenter/connect?name=PiControlHub&uuid=f6c4ad46-f0d3-11ee-a951-0242ac120002&tag=0&type=1"

\* connect_device_async: session.get(url), response.json()
connect_device_async(reply) ==
    CASE reply.kind = "refused" -> Raise("ClientConnectorError")
      [] reply.kind = "timeout" -> Raise("TimeoutError")
      [] reply.kind = "text" -> Raise("ContentTypeError")
      [] OTHER -> Return(reply.body)

(***************************************************************************)
(* DmpA6DeviceDriver.                                                      *)
(***************************************************************************)
\* DmpA6DeviceDriver(device_info)
DmpA6DeviceDriver(device_id, lirc_ok) ==
    [device_id |-> device_id, commands |-> create_commands(device_id, lirc_ok)]

\* get_command taking the ID for a position in the list
get_command_by_index(commands, cmd_id) ==
    IF cmd_id \in 1 .. Len(commands)
    THEN Return(commands[cmd_id])
    ELSE Raise("CommandNotFound")

\* get_command(cmd_id) over the list get_commands() returns
get_command(commands, cmd_id) ==
    LET result == SelectSeq(commands, LAMBDA c : c.id = cmd_id) IN
    IF Len(result) > 0 THEN Return(result[1]) ELSE Raise("CommandNotFound")

\* DmpA6HttpDeviceCommand.execute sending the request a second time
http_execute_retry(command, reply) ==
    [out |-> wrapper(reply),
     requests |-> <<Get(command.ip_address, DefaultPort, Uri(command.callback)),
                    Get(command.ip_address, DefaultPort, Uri(command.callback))>>,
     codes |-> <<>>]

\* DmpA6HttpDeviceCommand.execute: await self._callback(self._ip_address)
http_execute(command, reply) ==
    [out |-> wrapper(reply),
     requests |-> <<Get(command.ip_address, DefaultPort, Uri(command.callback))>>,
     codes |-> <<>>]

\* DmpA6PowerToggleCommand.execute: with a lirc client the branch is "pass",
\* the client is never used; without one power_off is called, a name
\* commands.py imports from eversolo.py and eversolo.py does not define, so
\* the name cannot be bound and no request is built
power_execute(command) ==
    IF command.lirc_client
    THEN [out |-> Return("None"), requests |-> <<>>, codes |-> <<>>]
    ELSE [out |-> Raise("ImportError"), requests |-> <<>>, codes |-> <<>>]

\* DmpA6DeviceDriver.execute(command): await command.execute()
execute(command, reply) ==
    IF command.class = "http" THEN http_execute(command, reply) ELSE power_execute(command)

\* is_device_ready: try connect_device_async, return True; except Exception: False
is_device_ready(reply) ==
    LET r == connect_device_async(reply) IN
    IF r.kind = "raise" THEN Return(FALSE) ELSE Return(TRUE)

\* ids a caller may ask the driver for
CommandIdsAsked == -1 .. 21

\* remote_layout_size with width and height exchanged
remote_layout_size_swapped == <<9, 3>>

\* remote_layout_size: return 3, 9 (width, height)
remote_layout_size == <<3, 9>>

\* remote_layout with the last cell repeating its neighbour
remote_layout_repeated ==
    << <<TOGGLE_POWER, TOGGLE_DISPLAY, TOGGLE_VU>>,
       <<VOLUME_DOWN, -1, VOLUME_UP>>,
       <<PLAY_PREVIOUS, PLAY_PAUSE, PLAY_NEXT>>,
       <<-1, -1, -1>>,
       <<INPUT_INTERNAL_PLAYER, INPUT_BLUETOOTH, INPUT_USB>>,
       <<INPUT_OPTICAL, -1, INPUT_COAX>>,
       <<-1, -1, -1>>,
       <<OUTPUT_BALXLR, OUTPUT_ANALOG_RCA, OUTPUT_XLR_RCA>>,
       <<OUTPUT_HDMI, OUTPUT_SPDIF, OUTPUT_SPDIF>> >>

\* remote_layout: the list of rows the property returns, built anew at each call
remote_layout ==
    << <<TOGGLE_POWER, TOGGLE_DISPLAY, TOGGLE_VU>>,
       <<VOLUME_DOWN, -1, VOLUME_UP>>,
       <<PLAY_PREVIOUS, PLAY_PAUSE, PLAY_NEXT>>,
       <<-1, -1, -1>>,
       <<INPUT_INTERNAL_PLAYER, INPUT_BLUETOOTH, INPUT_USB>>,
       <<INPUT_OPTICAL, -1, INPUT_COAX>>,
       <<-1, -1, -1>>,
       <<OUTPUT_BALXLR, OUTPUT_ANALOG_RCA, OUTPUT_XLR_RCA>>,
       <<OUTPUT_HDMI, OUTPUT_SPDIF, OUTPUT_USB_DAC>> >>

GetCommands ==
    /\ dret' = [op |-> "get_commands", arg |-> 0, reply |-> [kind |-> "none"],
                out |-> Return("commands")]
    /\ http' = <<>>
    /\ ir' = <<>>
    /\ UNCHANGED driver
    /\ UNCHANGED registryVars

GetCommand ==
    \E cmd_id \in CommandIdsAsked :
        /\ dret' = [op |-> "get_command", arg |-> cmd_id, reply |-> [kind |-> "none"],
                    out |-> get_command(driver.commands, cmd_id)]
        /\ http' = <<>>
        /\ ir' = <<>>
        /\ UNCHANGED driver
        /\ UNCHANGED registryVars

Execute ==
    \E i \in 1 .. Len(driver.commands), reply \in CommandReplies :
        LET e == execute(driver.commands[i], reply) IN
        /\ dret' = [op |-> "execute", arg |-> driver.commands[i].id,
                    reply |-> reply, out |-> e.out]
        /\ http' = e.requests
        /\ ir' = e.codes
        /\ UNCHANGED driver
        /\ UNCHANGED registryVars

RemoteLayoutSize ==
    /\ dret' = [op |-> "remote_layout_size", arg |-> 0, reply |-> [kind |-> "none"],
                out |-> Return(remote_layout_size)]
    /\ http' = <<>>
    /\ ir' = <<>>
    /\ UNCHANGED driver
    /\ UNCHANGED registryVars

RemoteLayout ==
    /\ dret' = [op |-> "remote_layout", arg |-> 0, reply |-> [kind |-> "none"],
                out |-> Return(remote_layout)]
    /\ http' = <<>>
    /\ ir' = <<>>
    /\ UNCHANGED driver
    /\ UNCHANGED registryVars

IsDeviceReady ==
    \E reply \in HandshakeReplies(driver.device_id) :
        /\ dret' = [op |-> "is_device_ready", arg |-> 0,
                    reply |-> reply, out |-> is_device_ready(reply)]
        /\ http' = <<Get(driver.device_id, DefaultPort, ConnectUri)>>
        /\ ir' = <<>>
        /\ UNCHANGED driver
        /\ UNCHANGED registryVars

NoDriver == [device_id |-> "none", commands |-> <<>>]

Init ==
    /\ devices = <<>>
    /\ known = {}
    /\ via = <<>>
    /\ backend \in Backends
    /\ cache = EmptyCache
    /\ written = <<>>
    /\ call = NoCall
    /\ pc = "idle"
    /\ ret = NoReturn
    /\ cb = NoCallback
    /\ driver = NoDriver
    /\ dret = [op |-> "none", arg |-> 0, reply |-> [kind |-> "none"], out |-> NoReturn]
    /\ http = <<>>
    /\ ir = <<>>

\* The ServiceBrowser announces a service it does not hold: a new one, or one
\* that comes back after its removal.
AddService ==
    \E n \in ServiceNames \ known, i \in ServiceInfos :
        \E r \in RepliesFor(i) :
            /\ add_service(n, i, r)
            /\ known' = known \cup {n}
            /\ UNCHANGED driverVars

\* The ServiceBrowser reports a change of a service it holds.
UpdateService ==
    \E n \in known :
        /\ update_service(n)
        /\ UNCHANGED driverVars

\* The ServiceBrowser reports that a service it holds is gone.
RemoveService ==
    \E n \in known :
        /\ remove_service(n)
        /\ known' = known \ {n}
        /\ UNCHANGED driverVars

GetDevices == Enter("get_devices", "none") /\ UNCHANGED driverVars

GetDevice == \E id \in DeviceIds : Enter("get_device", id) /\ UNCHANGED driverVars

CreateDeviceInstance ==
    \E id \in DeviceIds : Enter("create_device_instance", id) /\ UNCHANGED driverVars

Next ==
    \/ AddService
    \/ UpdateService
    \/ RemoveService
    \/ GetDevices
    \/ GetDevice
    \/ CreateDeviceInstance
    \/ ReturnCached
    \/ WriteCache
    \/ ReturnLive
    \/ Restart

\* The registry and the discovery listener.
Spec == Init /\ [][Next]_vars

\* whether lircd accepts the connection of lirc.Client()
LircStates == BOOLEAN

InitDriver ==
    /\ devices = <<>>
    /\ known = {}
    /\ via = <<>>
    /\ backend = "dbm.ndbm"
    /\ cache = EmptyCache
    /\ written = <<>>
    /\ call = NoCall
    /\ pc = "idle"
    /\ ret = NoReturn
    /\ cb = NoCallback
    /\ driver \in {DmpA6DeviceDriver(DeviceAt(a).host, l) : a \in Addresses, l \in LircStates}
    /\ dret = [op |-> "none", arg |-> 0, reply |-> [kind |-> "none"], out |-> NoReturn]
    /\ http = <<>>
    /\ ir = <<>>

NextDriver ==
    \/ GetCommands
    \/ GetCommand
    \/ Execute
    \/ IsDeviceReady
    \/ RemoteLayoutSize
    \/ RemoteLayout

\* One driver instance, bound to a device, and the calls of its host.
SpecDriver == InitDriver /\ [][NextDriver]_vars

(***************************************************************************)
(* Properties of the registry and of the discovery listener (Spec).        *)
(***************************************************************************)
\* the registry call named by call has returned to its caller
Finished(op) == pc = "idle" /\ call.op = op

\* the step in which the registry call in progress returns to its caller
Returns == pc # "idle" /\ pc' = "idle" /\ call' = call

\* C1: once get_devices has written a non-empty live list to the cache entry,
\* a get_devices call made while the live list is empty returns the sequence
\* of (name, device_id) pairs that was written, and does not raise.
C1_CacheRoundTrip ==
    (Finished("get_devices") /\ call.branch = "cached"
        /\ CacheKey \in DOMAIN cache /\ devices = <<>>)
    => (ret.kind = "return" /\ Deref(ret.val) = written)

\* C2: two add_service events with the same service name and the same
\* resolved address, both with a successful handshake, leave at most one
\* entry for that address in the discovered list.
C2_IdempotentPerServiceName ==
    \A i, j \in 1 .. Len(devices) :
        (via[i] = via[j] /\ devices[i].device_id = devices[j].device_id) => i = j

\* C3: the cache entry is absent or holds a non-empty device list, namely the
\* one get_devices wrote last; it is never overwritten with an empty list.
C3_CacheNeverEmpty ==
    IF CacheKey \in DOMAIN cache
    THEN /\ written # <<>>
         /\ cache[CacheKey] = JsonDumps(written)
         /\ cache[CacheKey] # JsonDumps(<<>>)
    ELSE written = <<>>

\* C3 witness: a get_devices call ran on an empty live list with the cache
\* entry present, and the entry still holds the list written earlier
C3_Witness ==
    /\ Finished("get_devices")
    /\ call.branch = "cached"
    /\ devices = <<>>
    /\ CacheKey \in DOMAIN cache
    /\ Len(written) = 2

\* C4: with no cache entry and nothing discovered, get_devices returns an
\* empty sequence and raises nothing.
C4_EmptyWithoutCache ==
    (Finished("get_devices") /\ CacheKey \notin DOMAIN cache /\ devices = <<>>)
    => (ret.kind = "return" /\ Deref(ret.val) = <<>>)

\* the list get_devices is specified to hand to get_device at the step in which
\* the call returns: the live list, or the cached one when the live list was empty
ListedAtReturn ==
    IF call.branch = "cached" /\ CacheKey \in DOMAIN cache THEN written ELSE devices'

\* C5: get_device(id) fails with DeviceNotFound for every id that is not the
\* device_id of an entry of get_devices() and otherwise returns an entry with
\* that device_id; create_device_instance(id) fails the same way and otherwise
\* yields a driver bound to such an entry.
C5_GetDeviceLookup ==
    [][(Returns /\ call.op \in {"get_device", "create_device_instance"})
        => LET L == ListedAtReturn
               hits == {k \in 1 .. Len(L) : L[k].device_id = call.id}
           IN  IF hits = {}
               THEN ret' = Raise("DeviceNotFound")
               ELSE \E k \in hits :
                      ret' = IF call.op = "get_device"
                             THEN Return(L[k])
                             ELSE Return([driver_for |-> L[k]])]_vars

\* C9: a list returned by get_devices is a snapshot: an append of add_service
\* after the return changes neither its length nor its contents; and only the
\* discovery listener writes the discovered list.
C9_SnapshotIsolation ==
    [][/\ (Finished("get_devices") /\ ret.kind = "return" /\ ret' = ret /\ call' = call)
          => (IF ret'.val = "live" THEN devices' ELSE ret'.val) = Deref(ret.val)
       /\ (devices' # devices /\ devices' # <<>>) => (cb'.event = "add" /\ cb'.appended)]_vars

\* the handshake of an add_service event succeeds: the service has an address
\* and the answer of the first one is JSON with device.name and device.host
HandshakeSucceeds(info, reply) ==
    /\ info.present
    /\ info.addresses # <<>>
    /\ reply.kind = "json"
    /\ "device" \in DOMAIN reply.body
    /\ {"name", "host"} \subseteq DOMAIN reply.body.device

\* C10: an add_service event appends exactly one descriptor, with the name and
\* host of the handshake response, when the service resolves to an address and
\* the handshake with the first one succeeds; otherwise the list is unchanged.
\* Either way no exception leaves the callback and at most one handshake is made.
C10_BestEffortDiscovery ==
    [][(cb'.event = "add" /\ known' # known)
        => \A n \in known' \ known, i \in ServiceInfos :
             \A r \in RepliesFor(i) :
                add_service(n, i, r)
                => /\ IF HandshakeSucceeds(i, r)
                      THEN devices' = Append(devices,
                                             [name |-> r.body.device.name,
                                              device_id |-> r.body.device.host])
                      ELSE devices' = devices
                   /\ cb'.raised = "none"
                   /\ cb'.connects = IF i.present /\ i.addresses # <<>> THEN 1 ELSE 0]_vars

\* C10 witness: the last announcement, resolved to 10.0.0.2 first, was confirmed
\* and appended the name and host that device reported, behind an earlier entry
C10_Witness ==
    /\ cb.event = "add"
    /\ cb.appended
    /\ cb.connects = 1
    /\ Len(devices) = 2
    /\ devices[1] = [name |-> "Living", device_id |-> "10.0.0.1"]
    /\ devices[2] = [name |-> "Studio", device_id |-> "10.0.0.9"]
    /\ via[2].address = "10.0.0.2"

\* s is t, or t with its last entries taken off
IsPrefix(s, t) == Len(s) <= Len(t) /\ SubSeq(t, 1, Len(s)) = s

\* the step is the start of a new process
IsRestart == cb'.event = "none" /\ call' = NoCall /\ pc' = "idle" /\ devices' = <<>>

\* C11: within a process the discovered list is append-only: each value is a
\* prefix of the next one, whichever callback or registry call takes the step;
\* update_service and remove_service leave the list as it is.
C11_AppendOnly ==
    [][/\ IsRestart \/ IsPrefix(devices, devices')
       /\ (cb'.event \in {"update", "remove"} /\ ~IsRestart) => devices' = devices]_vars

\* C11 witness: the service that confirmed the first device has been removed,
\* and the device is still listed
C11_Witness ==
    /\ cb.event = "remove"
    /\ Len(devices) = 2
    /\ via[1].service \notin known
    /\ pc = "return"

\* C15: when get_devices took the live branch, the list it returns is the list
\* it wrote to the cache entry in the same call, whatever add_service appended
\* between the emptiness test, the write and the return.
C15_ReturnsWhatItWrote ==
    [][(Returns /\ call.op = "get_devices" /\ call.branch = "live"
            /\ ret'.kind = "return")
        => LET returned == IF ret'.val = "live" THEN devices' ELSE ret'.val IN
           /\ returned = written'
           /\ CacheKey \in DOMAIN cache'
           /\ cache'[CacheKey] = JsonDumps(returned)]_vars

(***************************************************************************)
(* Properties of the driver (SpecDriver).                                  *)
(***************************************************************************)
\* the command IDs of the catalog
CatalogIds == {driver.commands[k].id : k \in 1 .. Len(driver.commands)}

\* C6: the command IDs of the catalog are pairwise distinct; get_command(id)
\* returns the command with that ID for an ID of the catalog and fails with
\* CommandNotFound for any other; the catalog stays as create_commands built it.
C6_CommandLookup ==
    /\ \A k, l \in 1 .. Len(driver.commands) :
          driver.commands[k].id = driver.commands[l].id => k = l
    /\ dret.op = "get_command"
       => IF dret.arg \in CatalogIds
          THEN /\ dret.out.kind = "return"
               /\ dret.out.val.id = dret.arg
               /\ \E k \in 1 .. Len(driver.commands) : driver.commands[k] = dret.out.val
          ELSE dret.out = Raise("CommandNotFound")
    /\ driver.commands = create_commands(driver.device_id, driver.commands[1].lirc_client)

\* C6 witness: a lookup of the last command of the catalog has returned it
C6_Witness ==
    /\ dret.op = "get_command"
    /\ dret.arg = OUTPUT_USB_DAC
    /\ dret.out.kind = "return"
    /\ dret.out.val.callback = "set_output_usb"

\* the handshake answer is JSON with device.name and device.host
IdentityReply(reply) ==
    /\ reply.kind = "json"
    /\ "device" \in DOMAIN reply.body
    /\ {"name", "host"} \subseteq DOMAIN reply.body.device

\* C7: is_device_ready runs one handshake against the bound address and returns
\* true exactly when the answer is JSON with device.name and device.host; on
\* any other outcome it returns false, and nothing is raised.
C7_ReadinessProbe ==
    dret.op = "is_device_ready"
    => /\ http = <<Get(driver.device_id, DefaultPort, ConnectUri)>>
       /\ dret.out = Return(IdentityReply(dret.reply))

\* the command executed last is an HTTP command
ExecutedHttp ==
    /\ dret.op = "execute"
    /\ \E k \in 1 .. Len(driver.commands) :
          driver.commands[k].id = dret.arg /\ driver.commands[k].class = "http"

ExecutedPowerToggle == dret.op = "execute" /\ dret.arg = TOGGLE_POWER

\* the power-toggle command holds a lirc client (lirc.Client() did not raise)
InfraredReady ==
    \E k \in 1 .. Len(driver.commands) :
        driver.commands[k].id = TOGGLE_POWER /\ driver.commands[k].lirc_client

\* C12: executing the power-toggle command sends exactly the infrared power
\* code and no HTTP request when the infrared client was created, and
\* otherwise sends one GET (the power-off request) to the driver's address.
C12_PowerToggle ==
    ExecutedPowerToggle
    => IF InfraredReady
       THEN Len(ir) = 1 /\ http = <<>>
       ELSE /\ ir = <<>>
            /\ Len(http) = 1
            /\ http[1].method = "GET"
            /\ http[1].host = driver.device_id

\* the path the device's control interface gives to the function each
\* command ID stands for
EndpointPath(cmd_id) ==
    CASE cmd_id = TOGGLE_DISPLAY -> "/ZidooMusicControl/v2/setPowerOption?tag=screen"
      [] cmd_id = TOGGLE_VU -> "/ZidooMusicControl/v2/changVUDisplay"
      [] cmd_id = VOLUME_UP -> "/ZidooControlCenter/RemoteControl/sendkey?key=Key.VolumeUp"
      [] cmd_id = VOLUME_DOWN -> "/ZidooControlCenter/RemoteControl/sendkey?key=Key.VolumeDown"
      [] cmd_id = PLAY_PAUSE -> "/ZidooMusicControl/v2/playOrPause"
      [] cmd_id = PLAY_NEXT -> "/ZidooMusicControl/v2/playNext"
      [] cmd_id = PLAY_PREVIOUS -> "/ZidooMusicControl/v2/playLast"
      [] cmd_id = INPUT_INTERNAL_PLAYER -> "/ZidooMusicControl/v2/setInputList?tag=XMOS&index=4"
      [] cmd_id = INPUT_BLUETOOTH -> "/ZidooMusicControl/v2/setInputList?tag=BT&index=4"
      [] cmd_id = INPUT_USB -> "/ZidooMusicControl/v2/setInputList?tag=USB&index=4"
      [] cmd_id = INPUT_OPTICAL -> "/ZidooMusicControl/v2/setInputList?tag=SPDIF&index=4"
      [] cmd_id = INPUT_COAX -> "/ZidooMusicControl/v2/setInputList?tag=RCA&index=4"
      [] cmd_id = OUTPUT_BALXLR -> "/ZidooMusicControl/v2/setOutInputList?tag=XLR&index=0"
      [] cmd_id = OUTPUT_ANALOG_RCA -> "/ZidooMusicControl/v2/setOutInputList?tag=RCA&index=0"
      [] cmd_id = OUTPUT_XLR_RCA -> "/ZidooMusicControl/v2/setOutInputList?tag=XLRRCA&index=0"
      [] cmd_id = OUTPUT_HDMI -> "/ZidooMusicControl/v2/setOutInputList?tag=HDMI&index=0"
      [] cmd_id = OUTPUT_SPDIF -> "/ZidooMusicControl/v2/setOutInputList?tag=SPDIF&index=0"
      [] cmd_id = OUTPUT_USB_DAC -> "/ZidooMusicControl/v2/setOutInputList?tag=USB&index=0"
      [] OTHER -> "none"

EmptySlot == -1

LayoutIds(grid) ==
    {grid[r][c] : r \in 1 .. Len(grid), c \in 1 .. 3} \ {EmptySlot}

\* the cells of a layout that hold the ID cmd_id
CellsOf(grid, cmd_id) ==
    {rc \in (1 .. Len(grid)) \X (1 .. 3) : grid[rc[1]][rc[2]] = cmd_id}

\* C16: every cell of remote_layout other than the sentinel is the ID of a
\* command of the catalog, so get_command on it returns a command, and every
\* ID of the catalog is in exactly one cell.
C16_LayoutMatchesCatalog ==
    /\ dret.op = "remote_layout"
       => LET grid == dret.out.val IN
          /\ \A id \in LayoutIds(grid) :
                get_command(driver.commands, id).kind = "return"
          /\ \A k \in 1 .. Len(driver.commands) :
                Cardinality(CellsOf(grid, driver.commands[k].id)) = 1
    /\ (dret.op = "get_command" /\ dret.arg \in LayoutIds(remote_layout))
       => (dret.out.kind = "return" /\ dret.out.val.id = dret.arg)

\* C16 witness: get_command was asked for the ID in the last cell of the
\* layout's sixth row and returned the coax input command
C16_Witness ==
    /\ dret.op = "get_command"
    /\ dret.arg = remote_layout[6][3]
    /\ dret.out.kind = "return"
    /\ dret.out.val.callback = "set_input_coax"

====
